---- MODULE Spec2Model ----
(***************************************************************************)
(* Model of the resume text-structuring and layout pipeline of             *)
(* app/services/pdf_service.py: _sanitize_text, _parse_resume_sections     *)
(* and the layout loop of generate_resume_pdf; and of the request handler  *)
(* analyze_resume of app/routes/resume.py with its collaborators           *)
(* resume_parser.extract_text_from_upload and n8n_client.send_resume.      *)
(*                                                                         *)
(* A Python str is a sequence of one-character strings; a character        *)
(* outside ASCII is written as its code point, "U+2022".                   *)
(***************************************************************************)
EXTENDS Integers, Sequences, FiniteSets, TLC

\* The variables of generate_resume_pdf are functions of the call: the
\* locals of one call are its own.
VARIABLES
    pc,               \* position of the call
    candidate_name,   \* the candidate_name argument
    resume_text,      \* the resume_text argument
    sanitized_text,   \* _sanitize_text(resume_text)
    lines,            \* text.split("\n")
    idx,              \* index of the next line (1-based; Python's idx + 1)
    contact_lines,    \* lines collected by the contact loop
    sections,         \* the Document: list of name/contact/section dicts
    current_section,  \* position in sections of the open section, 0 for None
    story,            \* flow elements handed to doc.build
    sec_i,            \* position in sections of the layout loop
    files             \* the temporary files that exist, named by their call

\* The variables of one request to analyze_resume.
VARIABLES
    rpc,              \* position of the handler
    upload,           \* the uploaded file
    adjust,           \* the adjust form field
    extracted_text,   \* resume_text of analyze_resume: the extracted text
    n8n_response,     \* what send_resume returned
    response,         \* what the caller receives
    log               \* the stages entered so far, in order

\* the variables of the calls of generate_resume_pdf
pvars == <<pc, candidate_name, resume_text, sanitized_text, lines, idx,
           contact_lines, sections, current_section, story, sec_i>>

\* the variables of the request
rvars == <<rpc, upload, adjust, extracted_text, n8n_response, response, log>>

\* what no step of the loops of generate_resume_pdf writes
outer == <<candidate_name, files, rvars>>

vars == <<pvars, files, rvars>>

----------------------------------------------------------------------------
(* Python str helpers                                                      *)

UpperChars == <<"A", "B", "C", "D", "E", "F", "G", "H", "I", "J", "K", "L", "M", "N", "O", "P", "Q", "R", "S", "T", "U", "V", "W", "X", "Y", "Z", "U+00C9", "U+00CA", "U+00C7", "U+00C3", "U+00D5">>

LowerChars == <<"a", "b", "c", "d", "e", "f", "g", "h", "i", "j", "k", "l", "m", "n", "o", "p", "q", "r", "s", "t", "u", "v", "w", "x", "y", "z", "U+00E9", "U+00EA", "U+00E7", "U+00E3", "U+00F5">>

Whitespace == {" ", "\t", "\n"}

Digits == {"0", "1", "2", "3", "4", "5", "6", "7", "8", "9"}

Range(s) == {s[i] : i \in DOMAIN s}

\* str.lower() on one character
LowerChar(c) ==
    IF \E i \in DOMAIN UpperChars : UpperChars[i] = c
    THEN LowerChars[CHOOSE i \in DOMAIN UpperChars : UpperChars[i] = c]
    ELSE c

\* str.upper() on one character
UpperChar(c) ==
    IF \E i \in DOMAIN LowerChars : LowerChars[i] = c
    THEN UpperChars[CHOOSE i \in DOMAIN LowerChars : LowerChars[i] = c]
    ELSE c

Lower(s) == [i \in DOMAIN s |-> LowerChar(s[i])]

Upper(s) == [i \in DOMAIN s |-> UpperChar(s[i])]

\* str.isupper(): at least one cased character and no lowercase one
IsUpper(s) ==
    /\ \E i \in DOMAIN s : s[i] \in Range(UpperChars)
    /\ \A i \in DOMAIN s : s[i] \notin Range(LowerChars)

RECURSIVE LStrip(_)
LStrip(s) ==
    IF s # <<>> /\ Head(s) \in Whitespace THEN LStrip(Tail(s)) ELSE s

RECURSIVE RStrip(_)
RStrip(s) ==
    IF s # <<>> /\ s[Len(s)] \in Whitespace
    THEN RStrip(SubSeq(s, 1, Len(s) - 1)) ELSE s

\* strip() forgotten
Strip_none(s) == s

\* str.strip()
Strip(s) == RStrip(LStrip(s))

\* str.rstrip(":")
RECURSIVE RStripColon(_)
RStripColon(s) ==
    IF s # <<>> /\ s[Len(s)] = ":"
    THEN RStripColon(SubSeq(s, 1, Len(s) - 1)) ELSE s

\* position of the first c in s, 0 when absent
Find(s, c) ==
    IF c \in Range(s) THEN CHOOSE i \in DOMAIN s :
        s[i] = c /\ \A j \in 1..(i - 1) : s[j] # c
    ELSE 0

\* `sub in s`
Contains(s, sub) ==
    \E i \in 0..(Len(s) - Len(sub)) :
        \A j \in DOMAIN sub : s[i + j] = sub[j]

\* s.split(sep) for a one-character sep
RECURSIVE Split(_, _)
Split(s, sep) ==
    LET p == Find(s, sep) IN
    IF p = 0 THEN <<s>>
    ELSE <<SubSeq(s, 1, p - 1)>> \o Split(SubSeq(s, p + 1, Len(s)), sep)

\* s.split(":", 1)
SplitColonOnce(s) ==
    LET p == Find(s, ":") IN
    IF p = 0 THEN <<s>>
    ELSE <<SubSeq(s, 1, p - 1), SubSeq(s, p + 1, Len(s))>>

\* "".join(parts)
RECURSIVE Concat(_)
Concat(parts) ==
    IF parts = <<>> THEN <<>>
    ELSE IF Len(parts) = 1 THEN parts[1]
    ELSE LET half == Len(parts) \div 2
         IN  Concat(SubSeq(parts, 1, half))
             \o Concat(SubSeq(parts, half + 1, Len(parts)))

\* s.replace(old, new) for a one-character old
Replace(s, old, new) ==
    Concat([i \in DOMAIN s |-> IF s[i] = old THEN new ELSE <<s[i]>>])

\* sep.join(parts)
RECURSIVE Join(_, _)
Join(parts, sep) ==
    IF parts = <<>> THEN <<>>
    ELSE IF Len(parts) = 1 THEN parts[1]
    ELSE parts[1] \o sep \o Join(Tail(parts), sep)

----------------------------------------------------------------------------
(* Regular expressions of the re module, as syntax trees.  Ends(r, s, i,   *)
(* ic) is the set of positions at which a match of r that starts at        *)
(* position i of s can end (the position after its last character); ic is  *)
(* the (?i) flag.                                                          *)

Class(cs) == [k |-> "class", cs |-> cs]

Lit(c) == Class({c})

Cat(rs) == [k |-> "cat", rs |-> rs]

Alt(rs) == [k |-> "alt", rs |-> rs]

Star(r) == [k |-> "star", r |-> r]

Opt(r) == [k |-> "opt", r |-> r]

Word(s) == Cat([i \in DOMAIN s |-> Lit(s[i])])

ReSpace == Class({" ", "\t", "\n"})

ReDigit == Class(Digits)

RECURSIVE Ends(_, _, _, _)
RECURSIVE EndsCat(_, _, _, _)
RECURSIVE EndsStar(_, _, _, _)

Ends(r, s, i, ic) ==
    CASE r.k = "class" ->
            IF /\ i <= Len(s)
               /\ \/ s[i] \in r.cs
                  \/ ic /\ \E c \in r.cs : LowerChar(c) = LowerChar(s[i])
            THEN {i + 1} ELSE {}
      [] r.k = "cat" -> EndsCat(r.rs, s, {i}, ic)
      [] r.k = "alt" -> UNION {Ends(r.rs[n], s, i, ic) : n \in DOMAIN r.rs}
      [] r.k = "opt" -> {i} \cup Ends(r.r, s, i, ic)
      [] r.k = "star" -> EndsStar(r.r, s, {i}, ic)

EndsCat(rs, s, from, ic) ==
    IF rs = <<>> \/ from = {} THEN from
    ELSE EndsCat(Tail(rs), s,
                 UNION {Ends(Head(rs), s, j, ic) : j \in from}, ic)

EndsStar(r, s, from, ic) ==
    LET more == UNION {Ends(r, s, j, ic) : j \in from} IN
    IF more \subseteq from THEN from
    ELSE EndsStar(r, s, from \cup more, ic)

\* re.match(r, s)
ReMatch(r, s, ic) == Ends(r, s, 1, ic) # {}

\* re.search(r, s)
ReSearch(r, s, ic) == \E i \in 1..(Len(s) + 1) : Ends(r, s, i, ic) # {}

----------------------------------------------------------------------------
(* Parsing helpers                                                         *)

_SECTION_PATTERNS == <<
    Cat(<<Word(<<"r", "e", "s", "u", "m">>), Class({"o", "|", "U+00E9"}), Star(ReSpace),
          Word(<<"p", "r", "o", "f", "i", "s", "s", "i", "o", "n", "a", "l">>)>>),
    Cat(<<Word(<<"e", "x", "p", "e", "r", "i">>), Class({"e", "U+00EA"}), Word(<<"n", "c", "i", "a">>), Star(ReSpace),
          Word(<<"p", "r", "o", "f", "i", "s", "s", "i", "o", "n", "a", "l">>)>>),
    Cat(<<Word(<<"f", "o", "r", "m", "a">>), Class({"U+00E7", "c"}), Class({"a", "U+00E3"}), Word(<<"o">>),
          Star(ReSpace), Word(<<"a", "c", "a", "d">>), Class({"e", "U+00EA"}), Word(<<"m", "i", "c", "a">>)>>),
    Word(<<"h", "a", "b", "i", "l", "i", "d", "a", "d", "e", "s">>),
    Cat(<<Word(<<"c", "o", "m", "p", "e", "t">>), Class({"e", "U+00EA"}), Word(<<"n", "c", "i", "a", "s">>)>>),
    Cat(<<Word(<<"s", "o", "f", "t", "w", "a", "r", "e">>), Opt(Lit("s")), Star(ReSpace),
          Opt(Cat(<<Lit("e"), Star(ReSpace), Word(<<"f", "e", "r", "r", "a", "m", "e", "n", "t", "a", "s">>)>>))>>),
    Word(<<"f", "e", "r", "r", "a", "m", "e", "n", "t", "a", "s">>),
    Word(<<"i", "d", "i", "o", "m", "a", "s">>),
    Cat(<<Word(<<"c", "e", "r", "t", "i", "f", "i", "c", "a">>), Class({"U+00E7", "c"}), Class({"o", "U+00F5"}),
          Word(<<"e", "s">>)>>),
    Word(<<"c", "u", "r", "s", "o", "s">>),
    Word(<<"p", "r", "o", "j", "e", "t", "o", "s">>),
    Word(<<"o", "b", "j", "e", "t", "i", "v", "o">>),
    Cat(<<Word(<<"i", "n", "f", "o", "r", "m", "a">>), Class({"U+00E7", "c"}), Class({"o", "U+00F5"}),
          Lit("e"), Opt(Lit("s")), Star(ReSpace),
          Alt(<<Word(<<"a", "d", "i", "c", "i", "o", "n", "a", "i", "s">>), Word(<<"p", "e", "s", "s", "o", "a", "i", "s">>),
                Word(<<"c", "o", "m", "p", "l", "e", "m", "e", "n", "t", "a", "r", "e", "s">>)>>)>>),
    Cat(<<Word(<<"l", "i", "n", "k">>), Opt(Lit("s")), Star(ReSpace),
          Opt(Cat(<<Lit("e"), Star(ReSpace), Word(<<"r", "e", "f", "e", "r">>),
                    Class({"e", "U+00EA"}), Word(<<"n", "c", "i", "a", "s">>)>>))>>),
    Cat(<<Word(<<"r", "e", "f", "e", "r">>), Class({"e", "U+00EA"}), Word(<<"n", "c", "i", "a", "s">>)>>),
    Word(<<"a", "t", "i", "v", "i", "d", "a", "d", "e", "s">>),
    Cat(<<Word(<<"t", "r", "a", "b", "a", "l", "h", "o">>), Opt(Lit("s")), Star(ReSpace), Word(<<"v", "o", "l", "u", "n", "t">>)>>)
>>

HeaderMaxLen == 60

InlineMinLen == 10

LineMaxLen == 120

MaxContactGuess == 3

SkillsMinItems == 4

\* replacements with the bullet mapped to an en dash instead of a hyphen
replacements_enDash == <<
    <<"U+2013", <<"-">>>>, <<"U+2014", <<"-">>>>, <<"U+2015", <<"-">>>>,
    <<"U+2018", <<"'">>>>, <<"U+2019", <<"'">>>>,
    <<"U+201C", <<"\"">> >>, <<"U+201D", <<"\"">> >>,
    <<"U+2022", <<"U+2013">> >>, <<"U+2026", <<".", ".", ".">>>>,
    <<"U+00A0", <<" ">>>>, <<"U+200B", <<>> >>, <<"U+00AD", <<"-">>>>,
    <<"U+FEFF", <<>> >>, <<"U+2010", <<"-">>>>, <<"U+2011", <<"-">>>>, <<"U+2012", <<"-">>>>,
    <<"U+2500", <<"-">>>>, <<"U+25AA", <<"-">>>>, <<"U+25BA", <<"-">>>>, <<"U+25CF", <<"-">>>>
>>

\* the table of _sanitize_text, in the order the dict is iterated
replacements == <<
    <<"U+2013", <<"-">>>>, <<"U+2014", <<"-">>>>, <<"U+2015", <<"-">>>>,
    <<"U+2018", <<"'">>>>, <<"U+2019", <<"'">>>>,
    <<"U+201C", <<"\"">> >>, <<"U+201D", <<"\"">> >>,
    <<"U+2022", <<"-">>>>, <<"U+2026", <<".", ".", ".">>>>,
    <<"U+00A0", <<" ">>>>, <<"U+200B", <<>> >>, <<"U+00AD", <<"-">>>>,
    <<"U+FEFF", <<>> >>, <<"U+2010", <<"-">>>>, <<"U+2011", <<"-">>>>, <<"U+2012", <<"-">>>>,
    <<"U+2500", <<"-">>>>, <<"U+25AA", <<"-">>>>, <<"U+25BA", <<"-">>>>, <<"U+25CF", <<"-">>>>
>>

RECURSIVE ApplyReplacements(_, _)
ApplyReplacements(text, table) ==
    IF table = <<>> THEN text
    ELSE ApplyReplacements(Replace(text, Head(table)[1], Head(table)[2]),
                           Tail(table))

_sanitize_text(text) == ApplyReplacements(text, replacements)

\* _extract_section_title that splits at the colon whatever follows it
_extract_section_title_splitAlways(line) ==
    LET stripped == Strip(line)
        parts == SplitColonOnce(stripped)
    IN  IF ":" \in Range(stripped)
        THEN <<Strip(parts[1]), Strip(parts[2])>>
        ELSE <<stripped, <<>> >>

\* returns <<title, inline content>>
_extract_section_title(line) ==
    LET stripped == Strip(line)
        parts == SplitColonOnce(stripped)
        title_part == Strip(parts[1])
        content_part == IF Len(parts) > 1 THEN Strip(parts[2]) ELSE <<>>
    IN  IF ":" \in Range(stripped) /\ Len(content_part) > InlineMinLen
        THEN <<title_part, content_part>>
        ELSE <<RStripColon(stripped), <<>> >>

\* _is_section_header with the patterns matched without the (?i) flag
_is_section_header_caseSensitive(line) ==
    LET stripped == Strip(line)
        before == IF ":" \in Range(stripped)
                  THEN Strip(SplitColonOnce(stripped)[1]) ELSE stripped
        title_part == RStripColon(before)
    IN  /\ title_part # <<>>
        /\ \/ IsUpper(title_part) /\ Len(title_part) < HeaderMaxLen
           \/ \E n \in DOMAIN _SECTION_PATTERNS :
                  ReMatch(_SECTION_PATTERNS[n], title_part, FALSE)

_is_section_header(line) ==
    LET stripped == Strip(line)
        before == IF ":" \in Range(stripped)
                  THEN Strip(SplitColonOnce(stripped)[1]) ELSE stripped
        title_part == RStripColon(before)
    IN  /\ title_part # <<>>
        /\ \/ IsUpper(title_part) /\ Len(title_part) < HeaderMaxLen
           \/ \E n \in DOMAIN _SECTION_PATTERNS :
                  ReMatch(_SECTION_PATTERNS[n], title_part, TRUE)

BulletMarkers == {"U+2022", "-", "U+2013", "U+2014", "*", "U+25BA", "U+25AA", "U+25CF"}

_is_bullet(line) ==
    LET stripped == Strip(line)
    IN  stripped # <<>> /\ stripped[1] \in BulletMarkers

\* _clean_bullet_text that keeps the marker
_clean_bullet_text_keepMarker(line) == Strip(line)

_clean_bullet_text(line) ==
    LET stripped == Strip(line)
    IN  IF stripped # <<>> /\ stripped[1] \in BulletMarkers
        THEN Strip(Tail(stripped)) ELSE stripped

ContactKeywords ==
    {<<"@">>, <<"l", "i", "n", "k", "e", "d", "i", "n">>, <<"g", "i", "t", "h", "u", "b">>, <<"t", "e", "l", "e", "f", "o", "n", "e">>, <<"t", "e", "l", ":">>, <<"f", "o", "n", "e", ":">>, <<"c", "e", "l", "u", "l", "a", "r">>}

PhonePattern ==
    Cat(<<Lit("("), ReDigit, ReDigit, Lit(")"), Star(ReSpace),
          ReDigit, ReDigit, ReDigit, ReDigit, Opt(ReDigit)>>)

_is_contact_line(line) ==
    \/ \E kw \in ContactKeywords : Contains(Lower(line), kw)
    \/ ReSearch(PhonePattern, line, FALSE)

----------------------------------------------------------------------------
(* The calls.  A call runs generate_resume_pdf(candidate_name,             *)
(* resume_text): sanitize, parse, lay out, build.                          *)

NameBlock(content) == [type |-> "name", content |-> content]

ContactBlock(content) == [type |-> "contact", content |-> content]

SectionBlock(title, items) ==
    [type |-> "section", title |-> title, items |-> items]

Item(type, text) == [type |-> type, text |-> text]

\* AppendBlock on a Document that all the calls share
AppendBlock_shared(self, block) ==
    sections' = [c \in DOMAIN sections |-> Append(sections[c], block)]

\* sections.append(block)
AppendBlock(self, block) ==
    sections' = [sections EXCEPT ![self] = Append(@, block)]

\* current_section["items"].append(item), for the section at position at
AppendItem(self, at, item) ==
    sections' = [sections EXCEPT ![self][at].items = Append(@, item)]

\* OpenSectionWith that appends the section and loses the pointer to it
OpenSectionWith_pointerLost(self, title, items) ==
    /\ AppendBlock(self, SectionBlock(title, items))
    /\ UNCHANGED current_section

\* sections.append(section); section["items"].append(item)
OpenSectionWith(self, title, items) ==
    /\ AppendBlock(self, SectionBlock(title, items))
    /\ current_section' =
           [current_section EXCEPT ![self] = Len(sections[self]) + 1]

\* the call self exists and is at label
At(self, label) == self \in DOMAIN pc /\ pc[self] = label

Goto(self, label) == pc' = [pc EXCEPT ![self] = label]

NextLine(self) == idx' = [idx EXCEPT ![self] = @ + 1]

HasLine(self) == idx[self] <= Len(lines[self])

\* lines[idx].strip()
Line(self) == Strip(lines[self][idx[self]])

\* sanitized_text = _sanitize_text(resume_text)
Sanitize(self) ==
    /\ At(self, "sanitize")
    /\ sanitized_text' =
           [sanitized_text EXCEPT ![self] = _sanitize_text(resume_text[self])]
    /\ Goto(self, "parse")
    /\ UNCHANGED <<outer, resume_text, lines, idx, contact_lines, sections,
                   current_section, story, sec_i>>

\* entry of _parse_resume_sections: split the text, no block, no section
ParseEnter(self) ==
    /\ At(self, "parse")
    /\ lines' = [lines EXCEPT ![self] = Split(sanitized_text[self], "\n")]
    /\ sections' = [sections EXCEPT ![self] = <<>>]
    /\ current_section' = [current_section EXCEPT ![self] = 0]
    /\ idx' = [idx EXCEPT ![self] = 1]
    /\ Goto(self, "name")
    /\ UNCHANGED <<outer, resume_text, sanitized_text, contact_lines, story, sec_i>>

\* while idx < len(lines) and not lines[idx].strip(): idx += 1
SkipBlank(self) ==
    /\ At(self, "name")
    /\ HasLine(self) /\ Line(self) = <<>>
    /\ NextLine(self)
    /\ UNCHANGED <<outer, pc, resume_text, sanitized_text, lines, contact_lines,
                   sections, current_section, story, sec_i>>

\* the first line that is not blank is the name
ExtractName(self) ==
    /\ At(self, "name")
    /\ HasLine(self) /\ Line(self) # <<>>
    /\ AppendBlock(self, NameBlock(Line(self)))
    /\ NextLine(self)
    /\ contact_lines' = [contact_lines EXCEPT ![self] = <<>>]
    /\ Goto(self, "contact")
    /\ UNCHANGED <<outer, resume_text, sanitized_text, lines, current_section,
                   story, sec_i>>

\* no line is left: no name block
NoName(self) ==
    /\ At(self, "name")
    /\ ~HasLine(self)
    /\ contact_lines' = [contact_lines EXCEPT ![self] = <<>>]
    /\ Goto(self, "contact")
    /\ UNCHANGED <<outer, resume_text, sanitized_text, lines, idx, sections,
                   current_section, story, sec_i>>

\* IsContactCandidate without the bound on the lines taken as a guess
IsContactCandidate_unbounded(self, line) ==
    \/ _is_contact_line(line)
    \/ /\ ~_is_section_header(line)
       /\ ~_is_bullet(line)
       /\ Len(line) < LineMaxLen
       /\ current_section[self] = 0

\* IsContactCandidate without the header test of the guess
IsContactCandidate_noHeaderTest(self, line) ==
    \/ _is_contact_line(line)
    \/ /\ Len(contact_lines[self]) < MaxContactGuess
       /\ ~_is_bullet(line)
       /\ Len(line) < LineMaxLen
       /\ current_section[self] = 0

\* the condition under which the contact loop takes a line
IsContactCandidate(self, line) ==
    \/ _is_contact_line(line)
    \/ /\ ~_is_section_header(line)
       /\ Len(contact_lines[self]) < MaxContactGuess
       /\ ~_is_bullet(line)
       /\ Len(line) < LineMaxLen
       /\ current_section[self] = 0

\* what the contact loop does next: skip a blank line, take the line, or stop
ContactKind(self) ==
    IF ~HasLine(self) THEN "end"
    ELSE IF Line(self) = <<>> THEN "blank"
    ELSE IF IsContactCandidate(self, Line(self)) THEN "take"
    ELSE "break"

ContactBlank(self) ==
    /\ At(self, "contact")
    /\ ContactKind(self) = "blank"
    /\ NextLine(self)
    /\ UNCHANGED <<outer, pc, resume_text, sanitized_text, lines, contact_lines,
                   sections, current_section, story, sec_i>>

\* ContactAbsorb appending one contact block per line instead of collecting
ContactAbsorb_blockPerLine(self) ==
    /\ At(self, "contact")
    /\ ContactKind(self) = "take"
    /\ AppendBlock(self, ContactBlock(Line(self)))
    /\ NextLine(self)
    /\ UNCHANGED <<outer, pc, resume_text, sanitized_text, lines, contact_lines,
                   current_section, story, sec_i>>

ContactAbsorb(self) ==
    /\ At(self, "contact")
    /\ ContactKind(self) = "take"
    /\ contact_lines' = [contact_lines EXCEPT ![self] = Append(@, Line(self))]
    /\ NextLine(self)
    /\ UNCHANGED <<outer, pc, resume_text, sanitized_text, lines, sections,
                   current_section, story, sec_i>>

\* the loop ends (break, or no line left); the contact block is appended
ContactEnd(self) ==
    /\ At(self, "contact")
    /\ ContactKind(self) \in {"break", "end"}
    /\ IF contact_lines[self] # <<>>
       THEN AppendBlock(self, ContactBlock(Join(contact_lines[self], <<" ", "|", " ">>)))
       ELSE UNCHANGED sections
    /\ Goto(self, "body")
    /\ UNCHANGED <<outer, resume_text, sanitized_text, lines, idx, contact_lines,
                   current_section, story, sec_i>>

\* BodyKind with the bullet test before the header test
BodyKind_bulletFirst(line) ==
    IF _is_bullet(line) THEN "bullet"
    ELSE IF _is_section_header(line) THEN "header"
    ELSE "text"

\* the if / elif / else of the main loop, for a line that is not blank
BodyKind(line) ==
    IF _is_section_header(line) THEN "header"
    ELSE IF _is_bullet(line) THEN "bullet"
    ELSE "text"

BodyBlank(self) ==
    /\ At(self, "body")
    /\ HasLine(self) /\ Line(self) = <<>>
    /\ NextLine(self)
    /\ UNCHANGED <<outer, pc, resume_text, sanitized_text, lines, contact_lines,
                   sections, current_section, story, sec_i>>

\* the items a header line brings: its inline content, if any
InlineItems(line) ==
    IF _extract_section_title(line)[2] # <<>>
    THEN <<Item("paragraph", _extract_section_title(line)[2])>>
    ELSE <<>>

BodyHeader(self) ==
    /\ At(self, "body")
    /\ HasLine(self) /\ Line(self) # <<>>
    /\ BodyKind(Line(self)) = "header"
    /\ OpenSectionWith(self, _extract_section_title(Line(self))[1],
                       InlineItems(Line(self)))
    /\ NextLine(self)
    /\ UNCHANGED <<outer, pc, resume_text, sanitized_text, lines, contact_lines,
                   story, sec_i>>

\* the item of a line of the main loop that is no header, in an open section
BodyItem(line) ==
    IF _is_bullet(line) THEN Item("bullet", _clean_bullet_text(line))
    ELSE IF "|" \in Range(line) /\ Len(line) < LineMaxLen
         THEN Item("job_title", line)
         ELSE Item("paragraph", line)

\* the item of such a line when no section is open
LooseItem(line) ==
    IF _is_bullet(line) THEN Item("bullet", _clean_bullet_text(line))
    ELSE Item("paragraph", line)

\* a bullet or text line with a section open: the item joins the section
BodyAppend(self) ==
    /\ At(self, "body")
    /\ HasLine(self) /\ Line(self) # <<>>
    /\ BodyKind(Line(self)) \in {"bullet", "text"}
    /\ current_section[self] # 0
    /\ AppendItem(self, current_section[self], BodyItem(Line(self)))
    /\ NextLine(self)
    /\ UNCHANGED <<outer, pc, resume_text, sanitized_text, lines, contact_lines,
                   current_section, story, sec_i>>

\* a bullet or text line with no section open: an implicit section is opened
BodyImplicit(self) ==
    /\ At(self, "body")
    /\ HasLine(self) /\ Line(self) # <<>>
    /\ BodyKind(Line(self)) \in {"bullet", "text"}
    /\ current_section[self] = 0
    /\ OpenSectionWith(self, <<>>, <<LooseItem(Line(self))>>)
    /\ NextLine(self)
    /\ UNCHANGED <<outer, pc, resume_text, sanitized_text, lines, contact_lines,
                   story, sec_i>>

\* return sections; the layout loop starts
ParseReturn(self) ==
    /\ At(self, "body")
    /\ ~HasLine(self)
    /\ story' = [story EXCEPT ![self] = <<>>]
    /\ sec_i' = [sec_i EXCEPT ![self] = 1]
    /\ Goto(self, "layout")
    /\ UNCHANGED <<outer, resume_text, sanitized_text, lines, idx, contact_lines,
                   sections, current_section>>

----------------------------------------------------------------------------
(* Layout: the flow elements of generate_resume_pdf                        *)

Paragraph(text, style) == [kind |-> "Paragraph", text |-> text, style |-> style]

Spacer(height) == [kind |-> "Spacer", height |-> height]

\* SectionHeader.__init__ keeps title.upper()
SectionHeader(title) == [kind |-> "SectionHeader", title |-> Upper(title)]

BulletPoint(text, style) ==
    [kind |-> "BulletPoint", text |-> text, style |-> style]

Table(data) == [kind |-> "Table", data |-> data]

bullet_char ==
    <<"<", "f", "o", "n", "t", " ", "c", "o", "l", "o", "r", "=">> \o <<"\"">> \o <<"#", "1", "B", "2", "A", "4", "A">> \o <<"\"">>
    \o <<">", "&", "#", "8", "2", "2", "6", ";", "<", "/", "f", "o", "n", "t", ">", "&", "n", "b", "s", "p", ";">>

NonEmpty(t) == t # <<>>

\* [it["text"] for it in items if it.get("text")]
Texts(items) == SelectSeq([i \in DOMAIN items |-> items[i].text], NonEmpty)

\* SkillColumns split at floor(n/2) instead of ceil(n/2)
SkillColumns_floor(items) ==
    LET texts == Texts(items)
        mid == Len(texts) \div 2
        col1 == SubSeq(texts, 1, mid)
        col2 == SubSeq(texts, mid + 1, Len(texts))
        rows == IF Len(col1) < Len(col2) THEN Len(col2) ELSE Len(col1)
        Pad(col) == col \o [i \in 1..(rows - Len(col)) |-> <<>>]
    IN  <<Pad(col1), Pad(col2)>>

\* the two columns of the skills table, padded to the same number of rows
SkillColumns(items) ==
    LET texts == Texts(items)
        mid == (Len(texts) + 1) \div 2
        col1 == SubSeq(texts, 1, mid)
        col2 == SubSeq(texts, mid + 1, Len(texts))
        rows == IF Len(col1) < Len(col2) THEN Len(col2) ELSE Len(col1)
        Pad(col) == col \o [i \in 1..(rows - Len(col)) |-> <<>>]
    IN  <<Pad(col1), Pad(col2)>>

SkillCell(text) ==
    Paragraph(IF text # <<>> THEN bullet_char \o text ELSE <<>>,
              "STYLE_SKILL_ITEM")

_build_skills_table(items) ==
    LET cols == SkillColumns(items)
    IN  Table([r \in DOMAIN cols[1] |->
                  <<SkillCell(cols[1][r]), SkillCell(cols[2][r])>>])

SkillsKeywords ==
    {<<"h", "a", "b", "i", "l", "i", "d", "a", "d", "e">>, <<"c", "o", "m", "p", "e", "t", "U+00EA", "n", "c", "i", "a">>, <<"c", "o", "m", "p", "e", "t", "e", "n", "c", "i", "a">>, <<"s", "o", "f", "t", "w", "a", "r", "e">>, <<"f", "e", "r", "r", "a", "m", "e", "n", "t", "a">>}

\* UsesSkillsTable with the threshold one too low
UsesSkillsTable_offByOne(section) ==
    /\ \E kw \in SkillsKeywords : Contains(Lower(section.title), kw)
    /\ section.items # <<>>
    /\ \A i \in DOMAIN section.items : section.items[i].type = "bullet"
    /\ Len(section.items) >= SkillsMinItems - 1

\* is_skills and all_bullets and len(items) >= 4
UsesSkillsTable(section) ==
    /\ \E kw \in SkillsKeywords : Contains(Lower(section.title), kw)
    /\ section.items # <<>>
    /\ \A i \in DOMAIN section.items : section.items[i].type = "bullet"
    /\ Len(section.items) >= SkillsMinItems

\* the flow element of one item of a section laid out vertically
ItemFlowable(item) ==
    IF item.type = "bullet" THEN BulletPoint(item.text, "STYLE_BULLET")
    ELSE IF item.type = "job_title" THEN Paragraph(item.text, "STYLE_JOB_TITLE")
    ELSE Paragraph(item.text, "STYLE_BODY")

SectionFlowables(section) ==
    (IF section.title # <<>>
     THEN <<Spacer(4), SectionHeader(section.title), Spacer(6)>> ELSE <<>>)
    \o (IF UsesSkillsTable(section)
        THEN <<_build_skills_table(section.items)>>
        ELSE [i \in DOMAIN section.items |-> ItemFlowable(section.items[i])])

InLayout(self) == At(self, "layout") /\ sec_i[self] <= Len(sections[self])

Block(self) == sections[self][sec_i[self]]

Emit(self, flowables) ==
    /\ story' = [story EXCEPT ![self] = @ \o flowables]
    /\ sec_i' = [sec_i EXCEPT ![self] = @ + 1]
    /\ UNCHANGED <<outer, pc, resume_text, sanitized_text, lines, idx,
                   contact_lines, sections, current_section>>

LayoutName(self) ==
    /\ InLayout(self) /\ Block(self).type = "name"
    /\ Emit(self, <<Paragraph(Upper(Block(self).content), "STYLE_NAME")>>)

LayoutContact(self) ==
    /\ InLayout(self) /\ Block(self).type = "contact"
    /\ Emit(self, <<Paragraph(Block(self).content, "STYLE_CONTACT"),
                    Spacer(4)>>)

LayoutSection(self) ==
    /\ InLayout(self) /\ Block(self).type = "section"
    /\ Emit(self, SectionFlowables(Block(self)))

\* doc.build(story); return output_path
Build(self) ==
    /\ At(self, "layout") /\ sec_i[self] > Len(sections[self])
    /\ Goto(self, "done")
    /\ UNCHANGED <<outer, resume_text, sanitized_text, lines, idx, contact_lines,
                   sections, current_section, story, sec_i>>

\* doc.build(story) raises: the exception leaves generate_resume_pdf
BuildFail(self) ==
    /\ At(self, "layout") /\ sec_i[self] > Len(sections[self])
    /\ Goto(self, "failed")
    /\ UNCHANGED <<outer, resume_text, sanitized_text, lines, idx, contact_lines,
                   sections, current_section, story, sec_i>>

----------------------------------------------------------------------------
(* The texts the calls are given                                           *)

MaxLines == 3

MaxContact == 4

MaxItems == 4

SeqsUpTo(S, n) == UNION {[1..k -> S] : k \in 0..n}

LongLine == [i \in 1..LineMaxLen |-> "x"]

LinePool ==
    { <<"A", "n", "a", " ", "L", "i", "m", "a">>, <<" ">>, <<"a", "@", "b", ".", "c">>, <<"G", "I", "T", "H", "U", "B">>, <<"C", "U", "R", "S", "O", "S">>,
      <<"H", "a", "b", "i", "l", "i", "d", "a", "d", "e", "s", ":", " ", "P", "y", "t", "h", "o", "n", ",", " ", "G", "o", ",", " ", "R", "u", "s", "t">>, <<"S", "k", "i", "l", "l", "s", ":", " ", "P", "y", "t", "h", "o", "n", ",", " ", "G", "o", ",", " ", "R", "u", "s", "t">>,
      <<"U+2022", " ", "L", "e", "d", " ", "a", " ", "t", "e", "a", "m">>, <<"-", " ", "S", "Q", "L">> }

ContactPool == { <<"a", "@", "b", ".", "c">>, <<"R", "u", "a", " ", "X">>, <<"(", "1", "1", ")", " ", "9", "8", "7", "6", "5">>, LongLine }

HeaderPool == { <<"H", "a", "b", "i", "l", "i", "d", "a", "d", "e", "s">>, <<"C", "U", "R", "S", "O", "S">>, <<"G", "I", "T", "H", "U", "B">>, <<"C", "U", "R", "S", "O", "S", ":", " ", "S", "Q", "L", ",", " ", "E", "x", "c", "e", "l">> }

ItemPool == { <<"-", " ", "G", "i", "t">>, <<"U+2022", " ", "G", "o", "U+2026">>, <<"-">>, <<"D", "e", "v", " ", "|", " ", "A", "c", "m", "e">> }

LineSeqs ==
    SeqsUpTo(LinePool, MaxLines)
    \cup {<<<<"A", "n", "a", " ", "L", "i", "m", "a">>>> \o c : c \in SeqsUpTo(ContactPool, MaxContact)}
    \cup {<<<<"A", "n", "a", " ", "L", "i", "m", "a">>, <<"a", "@", "b", ".", "c">>, h>> \o its :
              h \in HeaderPool, its \in SeqsUpTo(ItemPool, MaxItems)}

InputTexts == {Join(ls, <<"\n">>) : ls \in LineSeqs}

----------------------------------------------------------------------------
(* One call of generate_resume_pdf                                         *)

\* the candidate names the calls are given
NamePool == { <<"C", "a", "n", "d", "i", "d", "a", "t", "o">> }

\* no request to analyze_resume is under way
NoRequest ==
    /\ rpc = "idle"
    /\ upload = <<>>
    /\ adjust = FALSE
    /\ extracted_text = <<>>
    /\ n8n_response = <<>>
    /\ response = [kind |-> "none"]
    /\ log = <<>>

\* the calls are at "story: list = []", past the creation of their
\* temporary files
InitWith(calls, names, texts) ==
    /\ candidate_name \in [calls -> names]
    /\ files = calls
    /\ resume_text \in [calls -> texts]
    /\ pc = [c \in calls |-> "sanitize"]
    /\ sanitized_text = [c \in calls |-> <<>>]
    /\ lines = [c \in calls |-> <<>>]
    /\ idx = [c \in calls |-> 1]
    /\ contact_lines = [c \in calls |-> <<>>]
    /\ sections = [c \in calls |-> <<>>]
    /\ current_section = [c \in calls |-> 0]
    /\ story = [c \in calls |-> <<>>]
    /\ sec_i = [c \in calls |-> 1]

InitCalls(calls) == InitWith(calls, NamePool, InputTexts)

\* the calls a behaviour may hold
CallIds == {1, 2}

Init == InitCalls({1}) /\ NoRequest

\* a step of the loops of _parse_resume_sections
ParseStep(self) ==
    \/ SkipBlank(self)
    \/ ExtractName(self)
    \/ NoName(self)
    \/ ContactBlank(self)
    \/ ContactAbsorb(self)
    \/ ContactEnd(self)
    \/ BodyBlank(self)
    \/ BodyHeader(self)
    \/ BodyAppend(self)
    \/ BodyImplicit(self)
    \/ ParseReturn(self)

Step(self) ==
    \/ Sanitize(self)
    \/ ParseEnter(self)
    \/ ParseStep(self)
    \/ LayoutName(self)
    \/ LayoutContact(self)
    \/ LayoutSection(self)
    \/ Build(self)
    \/ BuildFail(self)

Next == \E self \in CallIds : Step(self)

Spec == Init /\ [][Next]_vars

----------------------------------------------------------------------------
(* generate_resume_pdf as a function of its text: the result of a call    *)
(* that runs alone                                                         *)

\* the name loop: the position of the first line that is not blank
RECURSIVE AloneSkipBlank(_, _)
AloneSkipBlank(ls, i) ==
    IF i <= Len(ls) /\ Strip(ls[i]) = <<>> THEN AloneSkipBlank(ls, i + 1)
    ELSE i

\* the contact loop from line i on: <<position it stops at, lines taken>>
RECURSIVE AloneContact(_, _, _)
AloneContact(ls, i, taken) ==
    IF i > Len(ls) THEN <<i, taken>>
    ELSE LET line == Strip(ls[i]) IN
         IF line = <<>> THEN AloneContact(ls, i + 1, taken)
         ELSE IF \/ _is_contact_line(line)
                 \/ /\ ~_is_section_header(line)
                    /\ Len(taken) < MaxContactGuess
                    /\ ~_is_bullet(line)
                    /\ Len(line) < LineMaxLen
              THEN AloneContact(ls, i + 1, Append(taken, line))
              ELSE <<i, taken>>

\* the main loop from line i on, with the Document doc and the open
\* section at position cur (0 for None): the Document returned
RECURSIVE AloneBody(_, _, _, _)
AloneBody(ls, i, doc, cur) ==
    IF i > Len(ls) THEN doc
    ELSE LET line == Strip(ls[i]) IN
         IF line = <<>> THEN AloneBody(ls, i + 1, doc, cur)
         ELSE IF _is_section_header(line)
              THEN AloneBody(ls, i + 1,
                             Append(doc, SectionBlock(
                                 _extract_section_title(line)[1],
                                 InlineItems(line))),
                             Len(doc) + 1)
         ELSE IF cur # 0
              THEN AloneBody(ls, i + 1,
                             [doc EXCEPT ![cur].items = Append(@, BodyItem(line))],
                             cur)
         ELSE AloneBody(ls, i + 1,
                        Append(doc, SectionBlock(<<>>, <<LooseItem(line)>>)),
                        Len(doc) + 1)

\* _parse_resume_sections(text)
_parse_resume_sections(text) ==
    LET ls == Split(text, "\n")
        n == AloneSkipBlank(ls, 1)
        named == IF n <= Len(ls) THEN <<NameBlock(Strip(ls[n]))>> ELSE <<>>
        contact == AloneContact(ls, IF n <= Len(ls) THEN n + 1 ELSE n, <<>>)
        contacted == IF contact[2] # <<>>
                     THEN Append(named, ContactBlock(Join(contact[2], <<" ", "|", " ">>)))
                     ELSE named
    IN  AloneBody(ls, contact[1], contacted, 0)

\* the flow elements of one Block
BlockFlowables(block) ==
    IF block.type = "name"
    THEN <<Paragraph(Upper(block.content), "STYLE_NAME")>>
    ELSE IF block.type = "contact"
    THEN <<Paragraph(block.content, "STYLE_CONTACT"), Spacer(4)>>
    ELSE SectionFlowables(block)

\* the story generate_resume_pdf builds for the Document
StoryOf(doc) == Concat([i \in DOMAIN doc |-> BlockFlowables(doc[i])])

----------------------------------------------------------------------------
(* Two calls of generate_resume_pdf at once                                *)

\* the texts and names of two concurrent calls
ConcTexts ==
    { <<>>,
      <<"A", "n", "a", " ", "L", "i", "m", "a">>,
      Join(<<<<" ">>, <<"A", "n", "a", " ", "L", "i", "m", "a">>, <<"U+2022", " ", "L", "e", "d", " ", "a", " ", "t", "e", "a", "m">>>>, <<"\n">>),
      Join(<<<<"A", "n", "a", " ", "L", "i", "m", "a">>, <<"a", "@", "b", ".", "c">>, <<>>, <<"C", "U", "R", "S", "O", "S">>, <<"-", " ", "G", "i", "t">>, <<>>,
             <<"D", "e", "v", " ", "|", " ", "A", "c", "m", "e">>>>, <<"\n">>),
      Join(<<<<"R", "u", "i", " ", "S", "U+00E1">>, <<"G", "I", "T", "H", "U", "B">>, <<"H", "a", "b", "i", "l", "i", "d", "a", "d", "e", "s", ":", " ", "P", "y", "t", "h", "o", "n", ",", " ", "G", "o", ",", " ", "R", "u", "s", "t">>,
             <<"-", " ", "S", "Q", "L">>>>, <<"\n">>) }

ConcNames == { <<"C", "a", "n", "d", "i", "d", "a", "t", "o">>, <<"A", "n", "a", " ", "L", "i", "m", "a">> }

ConcInit == InitWith({1, 2}, ConcNames, ConcTexts) /\ NoRequest

\* the steps of the two calls interleave in any order
ConcSpec == ConcInit /\ [][Next]_vars

----------------------------------------------------------------------------
(* The collaborators of analyze_resume                                     *)

\* Settings.MAX_FILE_SIZE_MB
MAX_FILE_SIZE_MB == 5

\* Settings.max_file_size_bytes
max_file_size_bytes == MAX_FILE_SIZE_MB * 1024 * 1024

\* s.startswith(prefix)
StartsWith(s, prefix) ==
    Len(s) >= Len(prefix) /\ SubSeq(s, 1, Len(prefix)) = prefix

\* s.endswith(suffix)
EndsWith(s, suffix) ==
    Len(s) >= Len(suffix)
    /\ SubSeq(s, Len(s) - Len(suffix) + 1, Len(s)) = suffix

\* a or b, for two str
Or(a, b) == IF a # <<>> THEN a ELSE b

\* what a call of a collaborator does: it returns a value or raises
Returns(value) == [raises |-> "", value |-> value]

Raises(exception, message) == [raises |-> exception, message |-> message]

\* extract_text_from_pdf: the texts of the pages that have one, stripped
\* and joined by a blank line.  PdfReader raises PdfReadError, which is not
\* a ValueError, on content it cannot read as a PDF.
extract_text_from_pdf(file) ==
    LET pages_text == SelectSeq([i \in DOMAIN file.pages |-> Strip(file.pages[i])],
                                NonEmpty)
        full_text == Join(pages_text, <<"\n", "\n">>)
    IN  IF ~file.readable
        THEN Raises("PdfReadError", "EOF marker not found")
        ELSE IF Strip(full_text) = <<>>
        THEN Raises("ValueError", "Nao foi possivel extrair texto do PDF.")
        ELSE Returns(full_text)

\* extract_text_from_upload(content, content_type, filename)
extract_text_from_upload(file, content_type, filename) ==
    IF content_type = <<"a", "p", "p", "l", "i", "c", "a", "t", "i", "o", "n", "/", "p", "d", "f">> \/ EndsWith(Lower(filename), <<".", "p", "d", "f">>)
    THEN extract_text_from_pdf(file)
    ELSE IF StartsWith(content_type, <<"t", "e", "x", "t", "/">>) \/ EndsWith(Lower(filename), <<".", "t", "x", "t">>)
    THEN IF Strip(file.body) = <<>>
         THEN Raises("ValueError", "O arquivo de texto esta vazio.")
         ELSE Returns(Strip(file.body))
    ELSE Raises("ValueError", "Tipo de arquivo nao suportado")

\* the arguments analyze_resume passes for the upload
ExtractUpload(file) ==
    extract_text_from_upload(file,
                             Or(file.content_type, <<"a", "p", "p", "l", "i", "c", "a", "t", "i", "o", "n", "/", "o", "c", "t", "e", "t", "-", "s", "t", "r", "e", "a", "m">>),
                             Or(file.filename, <<"u", "n", "k", "n", "o", "w", "n">>))

\* None, and an int, as values of "int | None"
None == <<>>

Some(n) == <<n>>

\* data.get(key, default), for a dict data
Get(data, key, default) == IF key \in DOMAIN data THEN data[key] ELSE default

N8NResponse(analysis, suggestions, score, rewritten_resume) ==
    [analysis |-> analysis, suggestions |-> suggestions, score |-> score,
     rewritten_resume |-> rewritten_resume]

\* the part of send_resume after response.json(): the reply normalised to
\* a dict and mapped to N8NResponse.  raw is [type |-> "list", items |-> ..],
\* [type |-> "dict", data |-> ..], or a JSON scalar ([type |-> "int"]), on
\* which '"output" in data' raises TypeError.
NormaliseReply(raw, adj) ==
    IF raw.type = "int" THEN Raises("TypeError", "argument of type 'int' is not iterable")
    ELSE
    LET data == IF raw.type = "list"
                THEN IF raw.items # <<>> THEN raw.items[1] ELSE <<>>
                ELSE raw.data
    IN  IF "output" \in DOMAIN data /\ "analysis" \notin DOMAIN data
        THEN Returns(N8NResponse(data["output"], data["output"],
                                 Get(data, "score", None),
                                 IF adj THEN data["output"] ELSE <<>>))
        ELSE Returns(N8NResponse(
                 Get(data, "analysis", <<>>),
                 Get(data, "suggestions", <<>>),
                 Get(data, "score", None),
                 Or(Get(data, "rewritten_resume", <<>>),
                    IF adj THEN Get(data, "analysis", <<>>) ELSE <<>>)))

\* send_resume(text, adjust), given what requests.post does: it raises
\* ConnectionError or ReadTimeout, or returns a reply that is not ok, has a
\* body that is not JSON (response.json() raises JSONDecodeError), or JSON
send_resume(post, adj) ==
    IF post.kind = "ConnectionError"
    THEN Raises("ConnectionError", "Nao foi possivel conectar ao n8n")
    ELSE IF post.kind = "ReadTimeout"
    THEN Raises("ReadTimeout", "n8n nao respondeu")
    ELSE IF ~post.ok
    THEN Raises("RuntimeError", "n8n retornou erro HTTP")
    ELSE IF post.kind = "text"
    THEN Raises("JSONDecodeError", "Expecting value")
    ELSE NormaliseReply(post.json, adj)

----------------------------------------------------------------------------
(* One request to analyze_resume                                           *)

\* the length under which the first line is taken as the candidate's name
NameMaxLen == 60

\* an uploaded file: its declared type and name, len(content), the text it
\* decodes to, the texts of its pages as a PDF, whether PdfReader reads it
File(content_type, filename, size, body, pages, readable) ==
    [content_type |-> content_type, filename |-> filename, size |-> size,
     body |-> body, pages |-> pages, readable |-> readable]

LongName == [i \in 1..NameMaxLen |-> "N"]

Uploads ==
    { File(<<"t", "e", "x", "t", "/", "p", "l", "a", "i", "n">>, <<"c", "v", ".", "t", "x", "t">>, 14, Join(<<<<"A", "n", "a", " ", "L", "i", "m", "a">>, <<"a", "@", "b", ".", "c">>>>, <<"\n">>), <<>>, FALSE),
      File(<<"t", "e", "x", "t", "/", "p", "l", "a", "i", "n">>, <<"c", "v", ".", "t", "x", "t">>, max_file_size_bytes, Join(<<LongName, <<"a", "@", "b", ".", "c">>>>, <<"\n">>), <<>>, FALSE),
      File(<<"t", "e", "x", "t", "/", "p", "l", "a", "i", "n">>, <<"c", "v", ".", "t", "x", "t">>, max_file_size_bytes + 1, <<"A", "n", "a", " ", "L", "i", "m", "a">>, <<>>, FALSE),
      File(<<"t", "e", "x", "t", "/", "p", "l", "a", "i", "n">>, <<"c", "v", ".", "t", "x", "t">>, 2, <<" ", " ">>, <<>>, FALSE),
      File(<<"a", "p", "p", "l", "i", "c", "a", "t", "i", "o", "n", "/", "p", "d", "f">>, <<"c", "v", ".", "p", "d", "f">>, 900, <<>>, <<<<" ", "R", "u", "i", " ", "S", "U+00E1", " ">>, <<>>, <<"C", "U", "R", "S", "O", "S">>>>, TRUE),
      File(<<"a", "p", "p", "l", "i", "c", "a", "t", "i", "o", "n", "/", "p", "d", "f">>, <<"s", "c", "a", "n", ".", "p", "d", "f">>, 900, <<>>, <<<<>>, <<" ">>>>, TRUE),
      File(<<>>, <<"C", "V", ".", "P", "D", "F">>, 8, <<"A", "n", "a", " ", "L", "i", "m", "a">>, <<>>, FALSE),
      File(<<"i", "m", "a", "g", "e", "/", "p", "n", "g">>, <<"c", "v", ".", "p", "n", "g">>, 900, <<>>, <<>>, FALSE) }

\* JSON values of the reply of n8n
Dict(data) == [type |-> "dict", data |-> data]

List(items) == [type |-> "list", items |-> items]

\* the texts n8n writes
Rewritten ==
    Join(<<<<"A", "n", "a", " ", "L", "i", "m", "a">>, <<"a", "@", "b", ".", "c">>, <<>>, <<"C", "U", "R", "S", "O", "S">>, <<"-", " ", "G", "i", "t">>, <<>>,
           <<"D", "e", "v", " ", "|", " ", "A", "c", "m", "e">>>>, <<"\n">>)

RewrittenLoose == Join(<<<<" ">>, <<"A", "n", "a", " ", "L", "i", "m", "a">>, <<"U+2022", " ", "L", "e", "d", " ", "a", " ", "t", "e", "a", "m">>>>, <<"\n">>)

Replies ==
    { Dict([output |-> Rewritten]),
      Dict([output |-> <<>>]),
      List(<<[output |-> RewrittenLoose, score |-> Some(7)]>>),
      List(<<>>),
      Dict([analysis |-> <<"B", "o", "m">>, suggestions |-> <<"I", "n", "c", "l", "u", "i", "r", " ", "G", "i", "t", "H", "u", "b">>, score |-> Some(7)]),
      Dict([analysis |-> <<"B", "o", "m">>, score |-> Some(11)]),
      Dict([analysis |-> <<"B", "o", "m">>, rewritten_resume |-> <<" ">>]),
      [type |-> "int"] }

\* what requests.post does
Posts ==
    { [kind |-> "ConnectionError"], [kind |-> "ReadTimeout"],
      [kind |-> "json", ok |-> FALSE], [kind |-> "text", ok |-> TRUE] }
    \cup { [kind |-> "json", ok |-> TRUE, json |-> raw] : raw \in Replies }

\* raise HTTPException(status_code, detail)
HTTPException(status_code, detail) ==
    [kind |-> "http_error", status |-> status_code, detail |-> detail]

\* an exception leaves analyze_resume: the server answers 500 without detail
Unhandled(exception) ==
    [kind |-> "unhandled", status |-> 500, detail |-> "Internal Server Error",
     exception |-> exception]

AnalysisResponse(analysis, suggestions, score) ==
    [kind |-> "json", status |-> 200, analysis |-> analysis,
     suggestions |-> suggestions, score |-> score]

\* AnalysisResponse accepts the score: None or an int with ge=0, le=10
ScoreValid(score) ==
    IF score = None THEN TRUE ELSE score[1] >= 0 /\ score[1] <= 10

FileResponse(path) ==
    [kind |-> "pdf", status |-> 200, path |-> path,
     filename |-> "curriculo_ajustado.pdf"]

\* TooLarge without the comparison: no upload is refused
TooLarge_never(file) == FALSE

\* len(content) > settings.max_file_size_bytes
TooLarge(file) == file.size > max_file_size_bytes

\* the handler leaves with the response, after the stage named
Leave(stage, r) ==
    /\ response' = r
    /\ rpc' = "done"
    /\ log' = Append(log, stage)

\* the handler goes on to the position next, after the stage named
Enter(stage, next) ==
    /\ rpc' = next
    /\ log' = Append(log, stage)
    /\ UNCHANGED response

\* 1. the size check rejects the upload
SizeRejected ==
    /\ rpc = "read"
    /\ TooLarge(upload)
    /\ Leave("size_check", HTTPException(413, "O arquivo excede o limite"))
    /\ UNCHANGED <<pvars, files, upload, adjust, extracted_text, n8n_response>>

SizeAccepted ==
    /\ rpc = "read"
    /\ ~TooLarge(upload)
    /\ Enter("size_check", "extract")
    /\ UNCHANGED <<pvars, files, upload, adjust, extracted_text, n8n_response>>

\* 2. extract_text_from_upload returns the text
ExtractOk ==
    /\ rpc = "extract"
    /\ ExtractUpload(upload).raises = ""
    /\ extracted_text' = ExtractUpload(upload).value
    /\ Enter("extract", "send")
    /\ UNCHANGED <<pvars, files, upload, adjust, n8n_response>>

\* except ValueError: 400 with the message of the exception
ExtractInvalid ==
    /\ rpc = "extract"
    /\ ExtractUpload(upload).raises = "ValueError"
    /\ Leave("extract", HTTPException(400, ExtractUpload(upload).message))
    /\ UNCHANGED <<pvars, files, upload, adjust, extracted_text, n8n_response>>

\* any other exception is not caught
ExtractCrash ==
    /\ rpc = "extract"
    /\ ExtractUpload(upload).raises \notin {"", "ValueError"}
    /\ Leave("extract", Unhandled(ExtractUpload(upload).raises))
    /\ UNCHANGED <<pvars, files, upload, adjust, extracted_text, n8n_response>>

\* 3. send_resume returns the N8NResponse
SendOk ==
    /\ rpc = "send"
    /\ \E post \in Posts :
           /\ send_resume(post, adjust).raises = ""
           /\ n8n_response' = send_resume(post, adjust).value
    /\ Enter("send_resume", "respond")
    /\ UNCHANGED <<pvars, files, upload, adjust, extracted_text>>

\* send_resume can raise the exception
SendRaises(exception) ==
    \E post \in Posts : send_resume(post, adjust).raises = exception

\* except ConnectionError
SendConnectionError ==
    /\ rpc = "send"
    /\ SendRaises("ConnectionError")
    /\ Leave("send_resume",
             HTTPException(500, "Nao foi possivel conectar ao servico de IA (n8n)."))
    /\ UNCHANGED <<pvars, files, upload, adjust, extracted_text, n8n_response>>

\* except ReadTimeout
SendReadTimeout ==
    /\ rpc = "send"
    /\ SendRaises("ReadTimeout")
    /\ Leave("send_resume",
             HTTPException(500, "O servico de IA demorou demais para responder."))
    /\ UNCHANGED <<pvars, files, upload, adjust, extracted_text, n8n_response>>

\* except RuntimeError
SendRuntimeError ==
    /\ rpc = "send"
    /\ SendRaises("RuntimeError")
    /\ Leave("send_resume", HTTPException(500, "Erro no servico de IA"))
    /\ UNCHANGED <<pvars, files, upload, adjust, extracted_text, n8n_response>>

\* any other exception of send_resume is not caught
SendCrash ==
    /\ rpc = "send"
    /\ \E exception \in {"JSONDecodeError", "TypeError"} :
           /\ SendRaises(exception)
           /\ Leave("send_resume", Unhandled(exception))
    /\ UNCHANGED <<pvars, files, upload, adjust, extracted_text, n8n_response>>

\* if adjust and n8n_response.rewritten_resume
WantsPdf == adjust /\ n8n_response.rewritten_resume # <<>>

\* the first line of the original text, or "Candidato" when it is long
CandidateName(resume) ==
    LET first_line == Strip(Split(Strip(resume), "\n")[1])
    IN  IF Len(first_line) < NameMaxLen THEN first_line ELSE <<"C", "a", "n", "d", "i", "d", "a", "t", "o">>

\* the call self of generate_resume_pdf(name, txt) is entered: its temporary
\* file is created and it stands at "story: list = []"
EnterCall(self, name, txt) ==
    /\ files' = files \cup {self}
    /\ candidate_name' = (self :> name) @@ candidate_name
    /\ resume_text' = (self :> txt) @@ resume_text
    /\ pc' = (self :> "sanitize") @@ pc
    /\ sanitized_text' = (self :> <<>>) @@ sanitized_text
    /\ lines' = (self :> <<>>) @@ lines
    /\ idx' = (self :> 1) @@ idx
    /\ contact_lines' = (self :> <<>>) @@ contact_lines
    /\ sections' = (self :> <<>>) @@ sections
    /\ current_section' = (self :> 0) @@ current_section
    /\ story' = (self :> <<>>) @@ story
    /\ sec_i' = (self :> 1) @@ sec_i

\* 4. generate_resume_pdf is called: it creates its temporary file and
\* starts on the rewritten text
CallGenerate ==
    /\ rpc = "respond"
    /\ WantsPdf
    /\ EnterCall(1, CandidateName(extracted_text),
                 n8n_response.rewritten_resume)
    /\ Enter("generate_resume_pdf", "render")
    /\ UNCHANGED <<upload, adjust, extracted_text, n8n_response>>

\* analysis mode: the JSON answer
RespondJson ==
    /\ rpc = "respond"
    /\ ~WantsPdf
    /\ ScoreValid(n8n_response.score)
    /\ Leave("response", AnalysisResponse(n8n_response.analysis,
                                          n8n_response.suggestions,
                                          n8n_response.score))
    /\ UNCHANGED <<pvars, files, upload, adjust, extracted_text, n8n_response>>

\* AnalysisResponse refuses the score: the ValidationError is not caught
RespondInvalid ==
    /\ rpc = "respond"
    /\ ~WantsPdf
    /\ ~ScoreValid(n8n_response.score)
    /\ Leave("response", Unhandled("ValidationError"))
    /\ UNCHANGED <<pvars, files, upload, adjust, extracted_text, n8n_response>>

\* generate_resume_pdf returned: the FileResponse is sent
RenderReturn ==
    /\ rpc = "render"
    /\ At(1, "done")
    /\ response' = FileResponse(1)
    /\ rpc' = "background"
    /\ log' = Append(log, "response")
    /\ UNCHANGED <<pvars, files, upload, adjust, extracted_text, n8n_response>>

\* generate_resume_pdf raised: the exception is not caught
RenderRaise ==
    /\ rpc = "render"
    /\ At(1, "failed")
    /\ Leave("response", Unhandled("RenderError"))
    /\ UNCHANGED <<pvars, files, upload, adjust, extracted_text, n8n_response>>

\* the BackgroundTask of the FileResponse: _remove unlinks the file
Cleanup ==
    /\ rpc = "background"
    /\ files' = files \ {response.path}
    /\ rpc' = "done"
    /\ log' = Append(log, "cleanup")
    /\ UNCHANGED <<pvars, upload, adjust, extracted_text, n8n_response, response>>

\* the request arrives; no call of generate_resume_pdf exists
ReqInit ==
    /\ rpc = "read"
    /\ upload \in Uploads
    /\ adjust \in BOOLEAN
    /\ extracted_text = <<>>
    /\ n8n_response = <<>>
    /\ response = [kind |-> "none"]
    /\ log = <<>>
    /\ files = {}
    /\ InitWith({}, {}, {})

Handler ==
    \/ SizeRejected
    \/ SizeAccepted
    \/ ExtractOk
    \/ ExtractInvalid
    \/ ExtractCrash
    \/ SendOk
    \/ SendConnectionError
    \/ SendReadTimeout
    \/ SendRuntimeError
    \/ SendCrash
    \/ CallGenerate
    \/ RespondJson
    \/ RespondInvalid
    \/ RenderReturn
    \/ RenderRaise
    \/ Cleanup

ReqNext == Handler \/ Next

\* one request, from its arrival to the end of its background task
ReqSpec == ReqInit /\ [][ReqNext]_vars

----------------------------------------------------------------------------
(* Properties                                                              *)

\* _parse_resume_sections has returned its Document
ParseReturned(self) == pc[self] \in {"layout", "done", "failed"}

\* the contact loop is over
ContactPhaseOver(self) == pc[self] \in {"body", "layout", "done", "failed"}

\* C1, as stated: the ContactBlock is made of at most 3 lines, whatever the
\* lines after the name line contain.
C1_AtMostThreeContactLines ==
    \A self \in DOMAIN pc : Len(contact_lines[self]) <= 3

\* C1, amended: at most 3 lines are taken into the ContactBlock as a guess;
\* every line of the ContactBlock beyond the third carries a contact marker
\* ('@', a contact keyword or a phone pattern), and such lines are taken
\* without bound.  The ContactBlock is the " | " join of the lines taken.
C1_GuessedContactLinesBounded ==
    \A self \in DOMAIN pc :
        /\ \A i \in DOMAIN contact_lines[self] :
               i > 3 => _is_contact_line(contact_lines[self][i])
        /\ Cardinality({i \in DOMAIN contact_lines[self] :
                           ~_is_contact_line(contact_lines[self][i])}) <= 3
        /\ ContactPhaseOver(self) /\ contact_lines[self] # <<>> =>
               sections[self][2] =
                   ContactBlock(Join(contact_lines[self], <<" ", "|", " ">>))

\* C1 witness: three unmarked lines were taken and the fourth short unmarked
\* line was left to the main loop.
C1_Witness ==
    /\ pc[1] = "body"
    /\ Len(contact_lines[1]) = 3
    /\ \A i \in 1..3 : ~_is_contact_line(contact_lines[1][i])
    /\ HasLine(1)
    /\ Line(1) # <<>> /\ Len(Line(1)) < 10
    /\ ~_is_contact_line(Line(1))
    /\ ~_is_section_header(Line(1)) /\ ~_is_bullet(Line(1))

\* the text of a bullet line, its marker removed
BulletText(line) == Strip(Tail(Strip(line)))

\* the stripped lines that are not blank, in order
NonBlank(ls) == SelectSeq([i \in DOMAIN ls |-> Strip(ls[i])], NonEmpty)

\* the call consumes its current line in this step
TakesLine(self) ==
    /\ pc[self] \in {"contact", "body"}
    /\ HasLine(self)
    /\ Line(self) # <<>>
    /\ idx'[self] = idx[self] + 1

\* the step appends a new SectionBlock and makes it the open section
OpensSection(self, title, items) ==
    /\ sections'[self] = Append(sections[self], SectionBlock(title, items))
    /\ current_section'[self] = Len(sections'[self])

\* the canonical section names as the specification lists them
SpecSectionNames ==
    { <<"E", "x", "p", "e", "r", "i", "e", "n", "c", "e">>, <<"E", "d", "u", "c", "a", "t", "i", "o", "n">>, <<"S", "k", "i", "l", "l", "s">>, <<"T", "o", "o", "l", "s">>, <<"L", "a", "n", "g", "u", "a", "g", "e", "s">>,
      <<"C", "e", "r", "t", "i", "f", "i", "c", "a", "t", "i", "o", "n", "s">>, <<"C", "o", "u", "r", "s", "e", "s">>, <<"P", "r", "o", "j", "e", "c", "t", "s">>, <<"O", "b", "j", "e", "c", "t", "i", "v", "e">>,
      <<"R", "e", "f", "e", "r", "e", "n", "c", "e", "s">>, <<"A", "c", "t", "i", "v", "i", "t", "i", "e", "s">> }

\* canonical section names of _SECTION_PATTERNS, in mixed case
CodeSectionNames ==
    { <<"H", "a", "b", "i", "l", "i", "d", "a", "d", "e", "s">>, <<"C", "o", "m", "p", "e", "t", "U+00EA", "n", "c", "i", "a", "s">>, <<"F", "e", "r", "r", "a", "m", "e", "n", "t", "a", "s">>, <<"I", "d", "i", "o", "m", "a", "s">>,
      <<"C", "e", "r", "t", "i", "f", "i", "c", "a", "U+00E7", "U+00F5", "e", "s">>, <<"C", "u", "r", "s", "o", "s">>, <<"P", "r", "o", "j", "e", "t", "o", "s">>, <<"O", "b", "j", "e", "t", "i", "v", "o">>, <<"R", "e", "f", "e", "r", "U+00EA", "n", "c", "i", "a", "s">>,
      <<"A", "t", "i", "v", "i", "d", "a", "d", "e", "s">> }

\* line is "<name>: <more than 10 characters>", name one of names
InlineHeaderLine(line, names) ==
    LET parts == SplitColonOnce(Strip(line)) IN
    /\ Len(parts) = 2
    /\ Strip(parts[1]) \in names
    /\ Len(Strip(parts[2])) > 10

\* the step opens the section "title: inline paragraph" of the current line
OpensInlineSection(self) ==
    LET parts == SplitColonOnce(Line(self)) IN
    OpensSection(self, Strip(parts[1]),
                 <<Item("paragraph", Strip(parts[2]))>>)

\* C2, as stated: a line "Name: content" whose Name is a canonical section
\* name in mixed case, such as "Skills", opens SectionBlock(title = Name,
\* items = [Paragraph(content)]).
C2_AsStated ==
    [][\A self \in DOMAIN pc :
          TakesLine(self) /\ InlineHeaderLine(Line(self), SpecSectionNames)
              => OpensInlineSection(self)]_vars

\* C2, amended: the canonical section names are the Portuguese ones of
\* _SECTION_PATTERNS.  A line "Name: content" whose Name is one of them in
\* mixed case (e.g. "Habilidades: Python, Go, Rust"), whose content is longer
\* than 10 characters and which carries no contact marker opens
\* SectionBlock(title = Name, items = [Paragraph(content)]).
C2_PortugueseInlineHeader ==
    [][\A self \in DOMAIN pc :
          /\ TakesLine(self)
          /\ InlineHeaderLine(Line(self), CodeSectionNames)
          /\ ~_is_contact_line(Line(self))
          => OpensInlineSection(self)]_vars

\* C2 witness: the line "Habilidades: Python, Go, Rust" has opened its
\* section.
C2_Witness ==
    /\ pc[1] = "body" /\ idx[1] > 1
    /\ InlineHeaderLine(lines[1][idx[1] - 1], CodeSectionNames)
    /\ current_section[1] = Len(sections[1])
    /\ sections[1][current_section[1]].title = <<"H", "a", "b", "i", "l", "i", "d", "a", "d", "e", "s">>
    /\ Len(sections[1][current_section[1]].items) = 1
    /\ sections[1][current_section[1]].items[1].type = "paragraph"

\* C3, as stated: when the first content line of the input is a bullet
\* line, the Document holds an implicit SectionBlock with empty title whose
\* first item is that Bullet, marker stripped.
C3_AsStated ==
    \A self \in DOMAIN pc :
        ParseReturned(self) =>
            LET nb == NonBlank(lines[self]) IN
            nb # <<>> /\ _is_bullet(nb[1]) /\ ~_is_section_header(nb[1]) =>
                \E i \in DOMAIN sections[self] :
                    /\ sections[self][i].type = "section"
                    /\ sections[self][i].title = <<>>
                    /\ sections[self][i].items[1] =
                           Item("bullet", BulletText(nb[1]))

\* C3, amended: the first content line is always the NameBlock.  When the
\* first content line after the name line is a bullet line (not a header,
\* no contact marker), the Document is the NameBlock followed by an implicit
\* SectionBlock with empty title whose first item is that Bullet, marker
\* stripped.
C3_BulletAfterName ==
    \A self \in DOMAIN pc :
        ParseReturned(self) =>
            LET nb == NonBlank(lines[self]) IN
            /\ nb # <<>> => sections[self][1] = NameBlock(nb[1])
            /\ /\ Len(nb) >= 2
               /\ _is_bullet(nb[2])
               /\ ~_is_section_header(nb[2])
               /\ ~_is_contact_line(nb[2])
               => /\ Len(sections[self]) >= 2
                  /\ sections[self][2].type = "section"
                  /\ sections[self][2].title = <<>>
                  /\ sections[self][2].items[1] =
                         Item("bullet", BulletText(nb[2]))

\* C3 witness: "Led a team" is the first item of the implicit section that
\* follows the name.
C3_Witness ==
    /\ ParseReturned(1)
    /\ Len(NonBlank(lines[1])) >= 2
    /\ _is_bullet(NonBlank(lines[1])[2])
    /\ Len(sections[1]) = 2
    /\ sections[1][2] =
           SectionBlock(<<>>, <<Item("bullet", <<"L", "e", "d", " ", "a", " ", "t", "e", "a", "m">>)>>)

\* the current line satisfies header detection and is consumed
TakesHeaderLine(self) == TakesLine(self) /\ _is_section_header(Line(self))

\* the header line opens its section (title and inline paragraph)
OpensHeaderSection(self) ==
    /\ Len(sections'[self]) = Len(sections[self]) + 1
    /\ sections'[self][Len(sections'[self])].type = "section"
    /\ sections'[self][Len(sections'[self])].title =
           _extract_section_title(Line(self))[1]
    /\ current_section'[self] = Len(sections'[self])

\* C7, as stated: every line after the name line that satisfies header
\* detection opens a new SectionBlock, also when it looks like a contact
\* line or a bullet.
C7_AsStated ==
    [][\A self \in DOMAIN pc :
          TakesHeaderLine(self) => OpensHeaderSection(self)]_vars

\* C7, amended: once the contact phase has ended, every line that satisfies
\* header detection opens a new SectionBlock, also when it looks like a
\* contact line or a bullet; while the contact phase is open, a header line
\* that carries a contact marker is absorbed into the ContactBlock instead,
\* and one that carries none ends the phase and opens its SectionBlock.
C7_HeaderAfterContactPhase ==
    [][\A self \in DOMAIN pc :
          TakesHeaderLine(self) =>
              IF pc[self] = "body" THEN OpensHeaderSection(self)
              ELSE /\ _is_contact_line(Line(self))
                   /\ contact_lines'[self] =
                          Append(contact_lines[self], Line(self))
                   /\ sections'[self] = sections[self]]_vars

\* C7 witness: a header line that is also a bullet or a contact line has
\* opened a section in the main loop.
C7_Witness ==
    /\ pc[1] = "body" /\ idx[1] > 1
    /\ _is_section_header(lines[1][idx[1] - 1])
    /\ \/ _is_bullet(lines[1][idx[1] - 1])
       \/ _is_contact_line(lines[1][idx[1] - 1])
    /\ current_section[1] = Len(sections[1])
    /\ sections[1][current_section[1]] =
           SectionBlock(lines[1][idx[1] - 1], <<>>)

\* lines are: a name line, a line with '@', a short all-caps line, and then
\* only "- text" lines
Scenario1(ls) ==
    /\ Len(ls) >= 3
    /\ Strip(ls[1]) # <<>>
    /\ "@" \in Range(ls[2])
    /\ IsUpper(ls[3]) /\ Len(Strip(ls[3])) < 60
    /\ \A i \in 4..Len(ls) : Strip(ls[i]) # <<>> /\ Strip(ls[i])[1] = "-"

\* the Document the claim gives for such lines
Scenario1Document(ls) ==
    << NameBlock(Strip(ls[1])),
       ContactBlock(Strip(ls[2])),
       SectionBlock(Strip(ls[3]),
                    [i \in 1..(Len(ls) - 3) |->
                        Item("bullet", BulletText(ls[i + 3]))]) >>

\* C8, as stated: for a name line, a line with '@', a short all-caps header
\* line and k bullet lines, the Document is exactly the NameBlock, the
\* ContactBlock of the '@' line alone and the SectionBlock titled by the
\* header with the k Bullets in order.
C8_AsStated ==
    \A self \in DOMAIN pc :
        ParseReturned(self) /\ Scenario1(lines[self]) =>
            sections[self] = Scenario1Document(lines[self])

\* C8, amended: the same, provided the header line has no ':' and carries
\* no contact marker ('@', a contact keyword, a phone pattern), and no
\* bullet line satisfies header detection itself (an all-caps bullet such as
\* "- SQL" opens its own section).
C8_Scenario1 ==
    \A self \in DOMAIN pc :
        /\ ParseReturned(self)
        /\ Scenario1(lines[self])
        /\ ":" \notin Range(lines[self][3])
        /\ ~_is_contact_line(lines[self][3])
        /\ \A i \in 4..Len(lines[self]) : ~_is_section_header(lines[self][i])
        => sections[self] = Scenario1Document(lines[self])

\* C8 witness: the scenario with two bullets has been parsed.
C8_Witness ==
    /\ ParseReturned(1)
    /\ Scenario1(lines[1])
    /\ Len(lines[1]) = 5
    /\ ~_is_contact_line(lines[1][3])
    /\ Len(sections[1]) = 3
    /\ Len(sections[1][3].items) = 2
    /\ sections[1][3].items[1] # sections[1][3].items[2]

\* every character of the text is whitespace
AllWhitespace(text) == Range(text) \subseteq Whitespace

\* how many phases of sanitizing and parsing are still to be entered
PhasesLeft(self) ==
    CASE pc[self] = "sanitize" -> 5
      [] pc[self] = "parse" -> 4
      [] pc[self] = "name" -> 3
      [] pc[self] = "contact" -> 2
      [] pc[self] = "body" -> 1
      [] OTHER -> 0

\* how many lines the current loop has still to read
LinesLeft(self) == Len(lines[self]) + 1 - idx[self]

\* the indices the parser uses are in range
IndicesInRange(self) ==
    /\ idx[self] \in 1..(Len(lines[self]) + 1)
    /\ current_section[self] \in 0..Len(sections[self])
    /\ current_section[self] # 0 =>
           sections[self][current_section[self]].type = "section"

\* C9: _sanitize_text followed by _parse_resume_sections ends with a
\* Document for every text and never fails: the indices it uses stay in
\* range, and every step enters a later phase or reads one more line of the
\* finite list of lines; the Document of the empty text and of a text of
\* blank lines only has no Block.
C9_Total ==
    /\ [](\A self \in CallIds : self \in DOMAIN pc => IndicesInRange(self))
    /\ [][\A self \in DOMAIN pc :
              ~ParseReturned(self) =>
                  \/ PhasesLeft(self)' < PhasesLeft(self)
                  \/ /\ PhasesLeft(self)' = PhasesLeft(self)
                     /\ LinesLeft(self)' < LinesLeft(self)
                     /\ LinesLeft(self)' >= 0]_vars
    /\ [](\A self \in CallIds :
              self \in DOMAIN pc /\ ParseReturned(self)
              /\ AllWhitespace(resume_text[self])
              => sections[self] = <<>>)

\* C9 witness: a text of two blank lines has been parsed into no Block.
C9_Witness ==
    /\ ParseReturned(1)
    /\ Len(lines[1]) >= 2
    /\ AllWhitespace(resume_text[1])
    /\ sections[1] = <<>>

\* the blocks the layout loop has laid out
Laid(self) == SubSeq(sections[self], 1, sec_i[self] - 1)

IsTable(e) == e.kind = "Table"

\* the tables of the story, in order
StoryTables(self) == SelectSeq(story[self], IsTable)

\* the laid-out sections rendered by _build_skills_table, in order
TableSections(self) ==
    SelectSeq(Laid(self),
              LAMBDA b : b.type = "section" /\ UsesSkillsTable(b))

\* the item texts of column c of a table: placeholders and markers removed
Column(table, c) ==
    LET cells == SelectSeq([r \in DOMAIN table.data |-> table.data[r][c].text],
                           NonEmpty)
    IN  [i \in DOMAIN cells |->
            SubSeq(cells[i], Len(bullet_char) + 1, Len(cells[i]))]

\* table splits texts in two columns of ceil(n/2) and floor(n/2) items
Balanced(table, texts) ==
    /\ Len(Column(table, 1)) = (Len(texts) + 1) \div 2
    /\ Len(Column(table, 2)) = Len(texts) \div 2
    /\ Column(table, 1) \o Column(table, 2) = texts

IsSkillsTableSection(b) ==
    /\ \E kw \in SkillsKeywords : Contains(Lower(b.title), kw)
    /\ \A i \in DOMAIN b.items : b.items[i].type = "bullet"
    /\ Len(b.items) >= 4

\* a flow element of the items of a section (not its header or a spacer)
IsItemFlowable(e) ==
    \/ e.kind \in {"Table", "BulletPoint"}
    \/ e.kind = "Paragraph" /\ e.style \in {"STYLE_JOB_TITLE", "STYLE_BODY"}

\* what a flow element shows of the items: <<role, text>>
Shown(e) ==
    IF e.kind = "Table" THEN <<"table", <<>> >>
    ELSE IF e.kind = "BulletPoint" THEN <<"bullet", e.text>>
    ELSE IF e.style = "STYLE_JOB_TITLE" THEN <<"job_title", e.text>>
    ELSE <<"paragraph", e.text>>

\* what the items of the laid-out sections have to show, by the claim
ToShow(self) ==
    LET secs == SelectSeq(Laid(self), LAMBDA b : b.type = "section") IN
    Concat([n \in DOMAIN secs |->
               IF IsSkillsTableSection(secs[n]) THEN << <<"table", <<>> >> >>
               ELSE [i \in DOMAIN secs[n].items |->
                        <<secs[n].items[i].type, secs[n].items[i].text>>]])

ReplacedChars == {replacements[i][1] : i \in DOMAIN replacements}

\* C6: _sanitize_text is idempotent: sanitizing the sanitized text changes
\* nothing, and no replaced character is left in it.
C6_SanitizeIdempotent ==
    \A self \in DOMAIN pc :
        pc[self] = "parse" =>
            /\ _sanitize_text(sanitized_text[self]) = sanitized_text[self]
            /\ Range(sanitized_text[self]) \cap ReplacedChars = {}

\* C6 witness: a text with replaced characters has been sanitized.
C6_Witness ==
    /\ pc[1] = "parse"
    /\ Range(resume_text[1]) \cap ReplacedChars # {}
    /\ sanitized_text[1] # resume_text[1]

\* C10: the returned Document has at most one NameBlock, which is first, at
\* most one ContactBlock, which is right after the NameBlock, and only
\* SectionBlocks after them.
C10_DocumentShape ==
    \A self \in DOMAIN pc :
        ParseReturned(self) =>
            \A i \in DOMAIN sections[self] :
                LET type == sections[self][i].type IN
                /\ type \in {"name", "contact", "section"}
                /\ type = "name" => i = 1
                /\ type = "contact" => i = 2 /\ sections[self][1].type = "name"

\* C10 witness: a Document with a name, a contact block and a section.
C10_Witness ==
    /\ ParseReturned(1)
    /\ Len(sections[1]) = 3
    /\ sections[1][1].type = "name"
    /\ sections[1][2].type = "contact"
    /\ sections[1][3].type = "section"

\* the flow elements of the story drawn in the name style, in order
NamesShown(self) ==
    SelectSeq(story[self], LAMBDA e : e.kind = "Paragraph" /\ e.style = "STYLE_NAME")

\* C14: the name shown at the top of the PDF that generate_resume_pdf
\* builds is its candidate_name argument (as given or in capitals), for
\* every candidate_name and resume_text.
C14_NameShownIsCandidateName ==
    \A self \in DOMAIN pc :
        pc[self] = "done" =>
            /\ story[self] # <<>>
            /\ story[self][1] \in
                   { Paragraph(candidate_name[self], "STYLE_NAME"),
                     Paragraph(Upper(candidate_name[self]), "STYLE_NAME") }

\* the main loop takes a header line that has a ':'
TakesColonHeader(self) ==
    /\ pc[self] = "body"
    /\ TakesHeaderLine(self)
    /\ ":" \in Range(Line(self))

\* the text of the line after its first ':', stripped
AfterColon(line) == Strip(SplitColonOnce(line)[2])

\* the text of the line before its first ':', stripped
BeforeColon(line) == Strip(SplitColonOnce(line)[1])

\* the line without its colons
WithoutColons(line) == SelectSeq(line, LAMBDA c : c # ":")

\* C16, as stated: a header line with a ':' whose text after the first
\* colon exceeds 10 characters opens the section titled by the part before
\* the colon, with the part after it as first Paragraph; any other header
\* line with a ':' opens the section titled by the whole line with the
\* colon stripped, with no item.
C16_AsStated ==
    [][\A self \in DOMAIN pc :
          TakesColonHeader(self) =>
              IF Len(AfterColon(Line(self))) > 10
              THEN OpensSection(self, BeforeColon(Line(self)),
                                <<Item("paragraph", AfterColon(Line(self)))>>)
              ELSE OpensSection(self, WithoutColons(Line(self)), <<>>)]_vars

\* C16, amended: the same, but in the second case the title is the whole
\* line with only its trailing colons stripped: a colon followed by at most
\* 10 characters stays in the title ("CURSOS: SQL, Excel" is its own
\* title).
C16_TrailingColonStripped ==
    [][\A self \in DOMAIN pc :
          TakesColonHeader(self) =>
              IF Len(AfterColon(Line(self))) > 10
              THEN OpensSection(self, BeforeColon(Line(self)),
                                <<Item("paragraph", AfterColon(Line(self)))>>)
              ELSE OpensSection(self, RStripColon(Line(self)), <<>>)]_vars

\* C16 witness: both cases have happened: the open section is the one of
\* "Habilidades: Python, Go, Rust", or the one of "CURSOS: SQL, Excel" whose
\* 10 characters after the colon stayed in the title.
C16_Witness ==
    /\ pc[1] = "body" /\ idx[1] > 1
    /\ current_section[1] = Len(sections[1])
    /\ lines[1][idx[1] - 1] = <<"C", "U", "R", "S", "O", "S", ":", " ", "S", "Q", "L", ",", " ", "E", "x", "c", "e", "l">>
    /\ Len(AfterColon(lines[1][idx[1] - 1])) = 10
    /\ sections[1][current_section[1]] =
           SectionBlock(<<"C", "U", "R", "S", "O", "S", ":", " ", "S", "Q", "L", ",", " ", "E", "x", "c", "e", "l">>, <<>>)

\* the positions in the Document of the SectionBlocks without a title
Untitled(self) ==
    {i \in DOMAIN sections[self] :
        sections[self][i].type = "section" /\ sections[self][i].title = <<>>}

\* the positions in the Document of the SectionBlocks with a title
Titled(self) ==
    {i \in DOMAIN sections[self] :
        sections[self][i].type = "section" /\ sections[self][i].title # <<>>}

\* the step appends one Block to the Document, a SectionBlock
AppendsSection(self) ==
    /\ Len(sections'[self]) = Len(sections[self]) + 1
    /\ sections'[self][Len(sections'[self])].type = "section"

\* the step takes a bullet or body line while no section is open
TakesLooseLine(self) ==
    /\ pc[self] = "body"
    /\ TakesLine(self)
    /\ ~_is_section_header(Line(self))
    /\ current_section[self] = 0

\* C18: a SectionBlock has an empty title if and only if a bullet or body
\* line opened it with no section open; the Document has at most one such
\* SectionBlock, before every titled SectionBlock and with at least one
\* item; once a section is open the current-section pointer never returns
\* to none.
C18_ImplicitSection ==
    /\ [](\A self \in CallIds : self \in DOMAIN pc =>
              /\ Cardinality(Untitled(self)) <= 1
              /\ \A i \in Untitled(self) :
                     /\ \A j \in Titled(self) : i < j
                     /\ sections[self][i].items # <<>>)
    /\ [][\A self \in DOMAIN pc :
              /\ AppendsSection(self) =>
                     (sections'[self][Len(sections'[self])].title = <<>>
                          <=> TakesLooseLine(self))
              /\ TakesLooseLine(self) => AppendsSection(self)
              /\ current_section[self] # 0 /\ pc[self] # "parse" =>
                     current_section'[self] # 0]_vars

\* C18 witness: the Document holds an implicit section with its item, and
\* a titled section after it.
C18_Witness ==
    /\ ParseReturned(1)
    /\ Untitled(1) # {} /\ Titled(1) # {}
    /\ \A i \in Untitled(1) : sections[1][i].items # <<>>

\* the locals of one call
Locals(self) ==
    <<pc[self], candidate_name[self], resume_text[self], sanitized_text[self],
      lines[self], idx[self], contact_lines[self], sections[self],
      current_section[self], story[self], sec_i[self]>>

\* C15: calls of the pipeline are independent: when the steps of two calls
\* on different texts interleave in any order, each call returns the
\* Document and builds the story it yields when it runs alone; every step
\* writes the locals of one call only, and nothing the calls share.
C15_CallsIndependent ==
    /\ [](\A self \in CallIds : self \in DOMAIN pc =>
              /\ ParseReturned(self) =>
                     sections[self] =
                         _parse_resume_sections(_sanitize_text(resume_text[self]))
              /\ pc[self] \in {"done", "failed"} =>
                     story[self] = StoryOf(sections[self]))
    /\ [][/\ Cardinality({c \in DOMAIN pc : Locals(c)' # Locals(c)}) <= 1
           /\ files' = files]_vars

\* C15 witness: two calls on different texts have both finished, their
\* Documents differ, and so do their stories.
C15_Witness ==
    /\ DOMAIN pc = {1, 2}
    /\ pc[1] = "done" /\ pc[2] = "done"
    /\ resume_text[1] # resume_text[2]
    /\ Len(sections[1]) >= 3 /\ Len(sections[2]) >= 3
    /\ sections[1] # sections[2]
    /\ story[1] # story[2]

\* the place of a stage in the order of analyze_resume
StageRank(stage) ==
    CASE stage = "size_check" -> 1
      [] stage = "extract" -> 2
      [] stage = "send_resume" -> 3
      [] stage = "generate_resume_pdf" -> 4
      [] stage = "response" -> 5
      [] stage = "cleanup" -> 6

\* how many times the stage was entered
Entered(stage) == Cardinality({i \in DOMAIN log : log[i] = stage})

\* C17: the stages of analyze_resume run in the order size check, text
\* extraction, orchestration call, response; send_resume is called at most
\* once, and only after the size check passed and the extraction returned
\* a text; generate_resume_pdf is called only after send_resume returned.
C17_StageOrder ==
    /\ \A i, j \in DOMAIN log : i < j => StageRank(log[i]) < StageRank(log[j])
    /\ Entered("send_resume") <= 1
    /\ Entered("send_resume") = 1 =>
           /\ upload.size <= 5 * 1024 * 1024
           /\ ExtractUpload(upload) = Returns(extracted_text)
    /\ (Entered("generate_resume_pdf") = 1 \/ DOMAIN pc # {}) =>
           /\ Entered("send_resume") = 1
           /\ \E post \in Posts : send_resume(post, adjust) = Returns(n8n_response)

\* C17 witness: a request went through every stage, the PDF included.
C17_Witness ==
    /\ rpc = "done"
    /\ log = <<"size_check", "extract", "send_resume", "generate_resume_pdf",
               "response", "cleanup">>

\* the request is over
Answered == rpc = "done"

\* the last stage the handler entered
LastStage == log[Len(log)]

\* the size check, the extraction and the orchestration call succeeded
CollaboratorsSucceeded == \E i \in DOMAIN log : StageRank(log[i]) > 3

\* C11: when the size check, the extraction and the orchestration call
\* succeed, a request with adjust=True is answered by the PDF, never by the
\* JSON analysis, and a request with adjust=False by the JSON analysis, no
\* PDF being generated.
C11_ResponseByMode ==
    Answered /\ CollaboratorsSucceeded =>
        IF adjust THEN response.kind = "pdf"
        ELSE /\ response.kind = "json"
             /\ Entered("generate_resume_pdf") = 0
             /\ DOMAIN pc = {}

\* C12: a request that ends in the size check, the extraction or the
\* orchestration call is answered by an HTTP error with a detail of its
\* kind: 413 for the size limit, 400 for a validation failure, 500 for a
\* failure of the orchestration service; no failure is left unclassified.
C12_FailuresClassified ==
    Answered /\ StageRank(LastStage) <= 3 =>
        /\ response.kind = "http_error"
        /\ response.status =
               (CASE LastStage = "size_check" -> 413
                  [] LastStage = "extract" -> 400
                  [] LastStage = "send_resume" -> 500)
        /\ response.detail # "Internal Server Error"

\* generate_resume_pdf raised in this request
RenderFailed == 1 \in DOMAIN pc /\ pc[1] = "failed"

\* C13: when the renderer fails in an adjust request, the request is
\* answered by an error that tells the caller that rendering failed, and
\* generate_resume_pdf is not called again.
C13_RenderFailureSurfaced ==
    /\ Entered("generate_resume_pdf") <= 1
    /\ Answered /\ RenderFailed =>
           /\ response.kind = "http_error"
           /\ response.detail # "Internal Server Error"

\* C19: when the request is over no temporary file is left, also when
\* rendering failed after the file was created; and the file is deleted
\* only after the response was sent.
C19_TempFileDeleted ==
    /\ Answered => files = {}
    /\ Entered("generate_resume_pdf") = 1 /\ files = {} =>
           response.kind = "pdf" /\ LastStage = "cleanup"

====
